---- MODULE Spec2Model ----
(***************************************************************************)
(* A model of script.js: the play/pause timeline controller, the spawn     *)
(* controller, the placement engine, the character animation state machine *)
(* and the frame detector.                                                 *)
(*                                                                         *)
(* Time is counted in whole seconds: Date.now() is now * 1000.  Lengths    *)
(* are CSS pixels.  Math.random() is the nondeterministic choice of        *)
(* k / RandDen for k in 0 .. RandDen - 1.                                  *)
(***************************************************************************)
EXTENDS Integers, Sequences, FiniteSets, TLC

\* ------------------------------------------------------------ bounds
MaxNow == 3          \* the wall clock runs from 0 to MaxNow seconds
AudioLen == 2        \* length of the audio file in seconds
RandDen == 3         \* Math.random() takes the values k / RandDen
RetryBudget == 2     \* samples tried by findRandomPosition (1000000 in the source)
MaxChars == 3        \* spawn timers stop firing at this many characters
MaxChains == 1       \* teardown chains that may be pending at once
CellPixels == 2      \* pixels of one sprite cell (64 x 64 in the source)
MaxCoord == 2        \* rectangles handed to checkCollision lie in 0 .. 2 * MaxCoord
MaxT == 3            \* song boundaries handed to updateScrollText lie in 0 .. MaxT
MaxSongs == 2        \* length of the song lists handed to updateScrollText
MaxMinutes == 1      \* minutes written in the lines handed to loadSongs
MaxLines == 2        \* lines of the texts handed to loadSongs
MaxShows == 2        \* show timeouts of the song list that may be pending at once

\* ------------------------------------------------------------ program constants
SPRITE_WIDTH == 64
SPRITE_HEIGHT == 64
FRAMES_PER_ROW == 5
ScaleNum == 7        \* SCALE = 1.75 = ScaleNum / ScaleDen
ScaleDen == 4
ScrollBarHeight == 60
CenterTargetRow == 31
CenterFrameIndexInRow == 2
CENTER_CHARACTER_OFFSET_X == -41
CENTER_CHARACTER_OFFSET_Y == 41
RemovalDelay == 500   \* milliseconds between two removals of a teardown

\* ------------------------------------------------------------ helpers
Null == <<>>
Some(v) == <<v>>
Val(m) == m[1]

Min(a, b) == IF a < b THEN a ELSE b
Max(a, b) == IF a > b THEN a ELSE b

\* ------------------------------------------------------------ state
VARIABLES
    now,              \* Date.now() / 1000
    gameStarted,
    hasEverStarted,
    elapsedTime,
    startTime,        \* Null or Some(milliseconds)
    songs,            \* sequence of [title, startTime, endTime]
    lastCurrentSong,  \* 0 (null) or the index in songs of the referenced song
    marquee,          \* text shown by scrollContent; "" when it is empty
    songTimer,        \* "null", "live" (id of an active interval), "dead"
    tickPending,      \* number of active setInterval tick timers
    spawnTimer,       \* "null", "live" (id of a pending timeout), "dead"
    spawnPending,     \* number of pending spawn timeouts
    audio,            \* backgroundAudio: [playing, currentTime]
    window,           \* [w, h]: window.innerWidth, window.innerHeight
    canvas,           \* [width, height]
    sprite,           \* "loading", "loaded" or "error": the image request
    sheet,            \* Null or Some(the image: [rows, cells])
    spriteSheetLoaded,
    framesByRow,      \* function from the valid rows to their frame lists
    validRows,        \* sequence of row indices
    animating,        \* startAnimation() has been called
    centerPending,    \* the 100 ms timeout that creates the center character
    characters,       \* sequence of Character records
    removals,         \* pending teardown chains: sequences of [index in characters, delay]
    pc,               \* "idle", or "spawn" inside the spawn timer callback
    tries,            \* the loop counter i of findRandomPosition
    songListVisible,
    showPending,      \* pending timeouts of 0 ms that show the song list
    env,              \* what the page runs in: [horizon, windows, sheets, plays]
    probe             \* Null, or one call of a function: its arguments and result

vars == <<now, gameStarted, hasEverStarted, elapsedTime, startTime, songs,
          lastCurrentSong, marquee, songTimer, tickPending, spawnTimer,
          spawnPending, audio, window, canvas, sprite, sheet,
          spriteSheetLoaded, framesByRow, validRows, animating, centerPending,
          characters, removals, pc, tries, songListVisible, showPending,
          env, probe>>

\* The program state as one record, so that a handler is a function from a
\* state to a state and handlers can call one another.
Cur ==
    [now |-> now, gameStarted |-> gameStarted, hasEverStarted |-> hasEverStarted,
     elapsedTime |-> elapsedTime, startTime |-> startTime, songs |-> songs,
     lastCurrentSong |-> lastCurrentSong, marquee |-> marquee,
     songTimer |-> songTimer, tickPending |-> tickPending,
     spawnTimer |-> spawnTimer, spawnPending |-> spawnPending, audio |-> audio,
     window |-> window, canvas |-> canvas, sprite |-> sprite, sheet |-> sheet,
     spriteSheetLoaded |-> spriteSheetLoaded, framesByRow |-> framesByRow,
     validRows |-> validRows, animating |-> animating,
     centerPending |-> centerPending, characters |-> characters,
     removals |-> removals, pc |-> pc, tries |-> tries,
     songListVisible |-> songListVisible, showPending |-> showPending,
     env |-> env, probe |-> probe]

Commit(s) ==
    /\ now' = s.now
    /\ gameStarted' = s.gameStarted
    /\ hasEverStarted' = s.hasEverStarted
    /\ elapsedTime' = s.elapsedTime
    /\ startTime' = s.startTime
    /\ songs' = s.songs
    /\ lastCurrentSong' = s.lastCurrentSong
    /\ marquee' = s.marquee
    /\ songTimer' = s.songTimer
    /\ tickPending' = s.tickPending
    /\ spawnTimer' = s.spawnTimer
    /\ spawnPending' = s.spawnPending
    /\ audio' = s.audio
    /\ window' = s.window
    /\ canvas' = s.canvas
    /\ sprite' = s.sprite
    /\ sheet' = s.sheet
    /\ spriteSheetLoaded' = s.spriteSheetLoaded
    /\ framesByRow' = s.framesByRow
    /\ validRows' = s.validRows
    /\ animating' = s.animating
    /\ centerPending' = s.centerPending
    /\ characters' = s.characters
    /\ removals' = s.removals
    /\ pc' = s.pc
    /\ tries' = s.tries
    /\ songListVisible' = s.songListVisible
    /\ showPending' = s.showPending
    /\ env' = s.env
    /\ probe' = s.probe

\* ------------------------------------------------------------ songs
Song(t, a, b) == [title |-> t, startTime |-> a, endTime |-> b]

\* The parsed song lists the page is run with.
SongLists ==
    { <<>>,
      <<Song("a", 0, 1), Song("b", 1, 3)>>,
      <<Song("a", 1, 2), Song("b", 3, 4)>> }

\* The loop of updateScrollText with the test elapsedTime <= song.endTime.
RECURSIVE ScanSongsInclusive(_, _, _)
ScanSongsInclusive(sgs, t, n) ==
    IF n > Len(sgs) THEN 0
    ELSE IF t >= sgs[n].startTime /\ t <= sgs[n].endTime THEN n
    ELSE ScanSongsInclusive(sgs, t, n + 1)

\* The loop of updateScrollText from song n on: the index of the first song
\* whose interval holds t, or 0 (null).
RECURSIVE ScanSongs(_, _, _)
ScanSongs(sgs, t, n) ==
    IF n > Len(sgs) THEN 0
    ELSE IF t >= sgs[n].startTime /\ t < sgs[n].endTime THEN n
    ELSE ScanSongs(sgs, t, n + 1)

\* updateScrollText: the index of the song chosen for elapsed time t.
CurrentSong(sgs, t) ==
    LET found == ScanSongs(sgs, t, 1)
    IN  IF found # 0 THEN found
        ELSE IF t >= sgs[Len(sgs)].endTime THEN Len(sgs)
        ELSE 1

SongKey(sgs, i) == <<sgs[i].title, sgs[i].startTime>>

\* updateScrollText: the marquee is rewritten only when the song key changes.
UpdateScrollText(s) ==
    IF Len(s.songs) = 0 THEN s
    ELSE LET c == CurrentSong(s.songs, s.elapsedTime)
         IN  IF s.lastCurrentSong = 0
                \/ SongKey(s.songs, c) # SongKey(s.songs, s.lastCurrentSong)
             THEN [s EXCEPT !.marquee = s.songs[c].title, !.lastCurrentSong = c]
             ELSE s

\* ------------------------------------------------------------ song file
\* A text is a sequence of characters, each a string of length one.
IsSpace(c) == c \in {" ", "\t", "\r"}

DigitChars == <<"0", "1", "2", "3", "4", "5", "6", "7", "8", "9">>
IsDigit(c) == \E d \in 1..Len(DigitChars) : DigitChars[d] = c
DigitValue(c) == (CHOOSE d \in 1..Len(DigitChars) : DigitChars[d] = c) - 1

\* str.split(sep) for a separator of one character; cur is the piece being read.
RECURSIVE Split(_, _, _)
Split(str, sep, cur) ==
    IF str = <<>> THEN <<cur>>
    ELSE IF Head(str) = sep THEN <<cur>> \o Split(Tail(str), sep, <<>>)
    ELSE Split(Tail(str), sep, Append(cur, Head(str)))

RECURSIVE TrimStart(_)
TrimStart(str) ==
    IF str # <<>> /\ IsSpace(Head(str)) THEN TrimStart(Tail(str)) ELSE str

RECURSIVE TrimEnd(_)
TrimEnd(str) ==
    IF str # <<>> /\ IsSpace(str[Len(str)])
    THEN TrimEnd(SubSeq(str, 1, Len(str) - 1)) ELSE str

\* str.trim()
Trim(str) == TrimEnd(TrimStart(str))

\* parseInt(str, 10) for a string of digits.
RECURSIVE parseInt(_)
parseInt(str) ==
    IF str = <<>> THEN 0
    ELSE parseInt(SubSeq(str, 1, Len(str) - 1)) * 10 + DigitValue(str[Len(str)])

\* timeToSeconds reading the minutes as hundreds.
timeToSecondsDecimal(timeStr) ==
    LET parts == Split(timeStr, ":", <<>>)
    IN  parseInt(parts[1]) * 100 + parseInt(parts[2])

timeToSeconds(timeStr) ==
    LET parts == Split(timeStr, ":", <<>>)
    IN  parseInt(parts[1]) * 60 + parseInt(parts[2])

\* str matches \d+
IsDigits(str) == str # <<>> /\ \A n \in 1..Len(str) : IsDigit(str[n])

\* str matches \d+:\d+
IsTime(str) ==
    \E n \in 1..Len(str) :
        /\ str[n] = ":"
        /\ IsDigits(SubSeq(str, 1, n - 1))
        /\ IsDigits(SubSeq(str, n + 1, Len(str)))

\* str matches \d+:\d+-\d+:\d+
IsRange(str) ==
    \E n \in 1..Len(str) :
        /\ str[n] = "-"
        /\ IsTime(SubSeq(str, 1, n - 1))
        /\ IsTime(SubSeq(str, n + 1, Len(str)))

\* The ways line matches /^(.+?)\s+(\d+:\d+)-(\d+:\d+)$/: the first group is
\* the first i characters and the times begin at character j.
Matches(line) ==
    {ij \in (1..Len(line)) \X (1..Len(line)) :
        /\ ij[1] + 1 < ij[2]
        /\ \A n \in 1..ij[1] : line[n] \notin {"\n", "\r"}
        /\ \A n \in (ij[1] + 1)..(ij[2] - 1) : IsSpace(line[n])
        /\ IsRange(SubSeq(line, ij[2], Len(line)))}

\* line.match(...): Null, or the three groups; the first group is lazy.
Match(line) ==
    IF Matches(line) = {} THEN Null
    ELSE LET ij == CHOOSE m \in Matches(line) : \A o \in Matches(line) : m[1] <= o[1]
             range == Split(SubSeq(line, ij[2], Len(line)), "-", <<>>)
         IN  Some(<<SubSeq(line, 1, ij[1]), range[1], range[2]>>)

\* The loop of loadSongs stopping at the first line that does not match.
RECURSIVE ParseLinesUntilMismatch(_)
ParseLinesUntilMismatch(lines) ==
    IF lines = <<>> THEN <<>>
    ELSE LET match == Match(Head(lines))
         IN  IF match = Null THEN <<>>
             ELSE <<Song(Trim(Val(match)[1]), timeToSeconds(Val(match)[2]),
                         timeToSeconds(Val(match)[3]))>>
                  \o ParseLinesUntilMismatch(Tail(lines))

\* The loop of loadSongs over the lines.
RECURSIVE ParseLines(_)
ParseLines(lines) ==
    IF lines = <<>> THEN <<>>
    ELSE LET match == Match(Head(lines))
         IN  (IF match = Null THEN <<>>
              ELSE <<Song(Trim(Val(match)[1]), timeToSeconds(Val(match)[2]),
                          timeToSeconds(Val(match)[3]))>>)
             \o ParseLines(Tail(lines))

\* loadSongs for the text of album/songs.txt: the value given to songs.
loadSongs(text) ==
    ParseLines(SelectSeq(Split(text, "\n", <<>>), LAMBDA line : Trim(line) # <<>>))

\* ------------------------------------------------------------ timers
\* clearTimeout / clearInterval of a handle, followed by handle = null.
ClearHandle(h, pending) == IF h = "live" THEN pending - 1 ELSE pending

\* ------------------------------------------------------------ audio
\* backgroundAudio.play(): ok says whether the browser accepts the request.
\* Playing a medium that has ended restarts it from the beginning.
AudioPlay(a, ok) ==
    IF a.playing \/ ~ok THEN a
    ELSE [playing |-> TRUE,
          currentTime |-> IF a.currentTime >= AudioLen THEN 0 ELSE a.currentTime]

AudioPause(a) == [a EXCEPT !.playing = FALSE]

AudioSeek(a, t) == [a EXCEPT !.currentTime = Min(t, AudioLen)]

\* ------------------------------------------------------------ play / pause
\* scheduleNextSpawn: one more pending timeout, remembered in spawnTimer.
ScheduleNextSpawn(s) ==
    [s EXCEPT !.spawnTimer = "live", !.spawnPending = @ + 1]

\* handleMessageBoxClick, the branch taken when the game is not started.
StartGame(s, ok) ==
    LET s1 == [s EXCEPT !.gameStarted = TRUE, !.audio = AudioPlay(@, ok)]
        s2 == IF ~s1.hasEverStarted
              THEN [s1 EXCEPT !.elapsedTime = 0, !.hasEverStarted = TRUE,
                              !.lastCurrentSong = 0, !.marquee = ""]
              ELSE s1
        s3 == [s2 EXCEPT !.startTime = Some(s.now * 1000), !.elapsedTime = 0,
                         !.songTimer = "live", !.tickPending = @ + 1]
    IN  ScheduleNextSpawn(UpdateScrollText(s3))

\* The pause branch without the clearTimeout of the spawn timer.
PauseGameKeepsSpawn(s) ==
    [s EXCEPT !.gameStarted = FALSE,
              !.audio = AudioPause(@),
              !.tickPending = IF s.songTimer # "null"
                              THEN ClearHandle(s.songTimer, @) ELSE @,
              !.songTimer = "null"]

\* handleMessageBoxClick, the branch taken when the game is started.
PauseGame(s) ==
    [s EXCEPT !.gameStarted = FALSE,
              !.audio = AudioPause(@),
              !.tickPending = IF s.songTimer # "null"
                              THEN ClearHandle(s.songTimer, @) ELSE @,
              !.songTimer = "null",
              !.spawnPending = IF s.spawnTimer # "null"
                               THEN ClearHandle(s.spawnTimer, @) ELSE @,
              !.spawnTimer = "null"]

HandleMessageBoxClick(s, ok) ==
    IF ~s.gameStarted THEN StartGame(s, ok) ELSE PauseGame(s)

\* The 'keydown' listener of the document.
OnKeyDown(s, code, ok) ==
    IF code = "Space" THEN HandleMessageBoxClick(s, ok) ELSE s

\* The media-session 'play' handler without its test of gameStarted.
MediaSessionPlayToggles(s, ok) == HandleMessageBoxClick(s, ok)

\* The action handlers of navigator.mediaSession.
MediaSessionPlay(s, ok) ==
    IF ~s.gameStarted THEN HandleMessageBoxClick(s, ok) ELSE s

MediaSessionPause(s, ok) ==
    IF s.gameStarted THEN HandleMessageBoxClick(s, ok) ELSE s

\* The elapsed time of the interval callback with the operands of the
\* subtraction exchanged.
TickElapsedSwapped(s) == (Val(s.startTime) - s.now * 1000) \div 1000

\* The songTimer interval callback.
TickElapsed(s) == (s.now * 1000 - Val(s.startTime)) \div 1000

SongTimerTick(s) ==
    UpdateScrollText([s EXCEPT !.elapsedTime = TickElapsed(s)])

\* seekToSong assigning elapsedTime before it starts the game.
SeekToSongEarly(s, t, ok) ==
    LET s1 == [s EXCEPT !.audio = AudioSeek(@, t), !.elapsedTime = t]
        s2 == IF ~s1.gameStarted THEN HandleMessageBoxClick(s1, ok)
              ELSE [s1 EXCEPT !.audio = AudioPlay(@, ok)]
        s3 == [s2 EXCEPT !.startTime = IF s2.gameStarted
                                       THEN Some(s2.now * 1000 - t * 1000)
                                       ELSE @]
    IN  UpdateScrollText(s3)

\* seekToSong setting a new tick interval when the game is started already.
SeekToSongRestartsTick(s, t, ok) ==
    LET s1 == [s EXCEPT !.audio = AudioSeek(@, t)]
        s2 == IF ~s1.gameStarted THEN HandleMessageBoxClick(s1, ok)
              ELSE [s1 EXCEPT !.audio = AudioPlay(@, ok),
                              !.songTimer = "live", !.tickPending = @ + 1]
        s3 == [s2 EXCEPT !.elapsedTime = t,
                         !.startTime = IF s2.gameStarted
                                       THEN Some(s2.now * 1000 - t * 1000)
                                       ELSE @]
    IN  UpdateScrollText(s3)

\* seekToSong calling handleMessageBoxClick whether the game is started or not.
SeekToSongToggles(s, t, ok) ==
    LET s1 == [s EXCEPT !.audio = AudioSeek(@, t)]
        s2 == HandleMessageBoxClick(s1, ok)
        s3 == [s2 EXCEPT !.elapsedTime = t,
                         !.startTime = IF s2.gameStarted
                                       THEN Some(s2.now * 1000 - t * 1000)
                                       ELSE @]
    IN  UpdateScrollText(s3)

\* seekToSong(startTimeSeconds); backgroundAudio is set before any song item
\* can be clicked.
SeekToSong(s, t, ok) ==
    LET s1 == [s EXCEPT !.audio = AudioSeek(@, t)]
        s2 == IF ~s1.gameStarted THEN HandleMessageBoxClick(s1, ok)
              ELSE [s1 EXCEPT !.audio = AudioPlay(@, ok)]
        s3 == [s2 EXCEPT !.elapsedTime = t,
                         !.startTime = IF s2.gameStarted
                                       THEN Some(s2.now * 1000 - t * 1000)
                                       ELSE @]
    IN  UpdateScrollText(s3)

\* ------------------------------------------------------------ frame detector
Px(r, g, b, a) == [r |-> r, g |-> g, b |-> b, a |-> a]
Transparent == Px(0, 0, 0, 0)
Red == Px(1, 0, 0, 1)
Blue == Px(0, 0, 1, 1)

BlankCell == [p \in 1..CellPixels |-> Transparent]
UniformCell == [p \in 1..CellPixels |-> Red]
ArtCell == [p \in 1..CellPixels |-> IF p = 1 THEN Red ELSE Blue]

\* An image of rows x FRAMES_PER_ROW cells: art and uniform are sets of frames.
Sheet(rows, art, uniform) ==
    [rows |-> rows,
     cells |-> [f \in 0..(rows * FRAMES_PER_ROW - 1) |->
                  IF f \in art THEN ArtCell
                  ELSE IF f \in uniform THEN UniformCell ELSE BlankCell]]

\* Images character-spritesheet.png may turn out to be: one row holding one
\* sprite; rows of two, one and three sprites; no sprite at all.
PlainSheet == Sheet(1, {0}, {})
RichSheet == Sheet(3, {0, 2, 10, 11, 12}, {6})
EmptySheet == Sheet(1, {}, {})

\* isFrameBlank, the pixel loop: [firstPixel, hasContent] from pixel k on.
RECURSIVE ScanPixels(_, _, _)
ScanPixels(pixels, k, firstPixel) ==
    IF k > Len(pixels) THEN [firstPixel |-> firstPixel, hasContent |-> FALSE]
    ELSE IF pixels[k].a > 0
         THEN IF firstPixel = Null THEN ScanPixels(pixels, k + 1, Some(pixels[k]))
              ELSE IF pixels[k].r # Val(firstPixel).r \/ pixels[k].g # Val(firstPixel).g
                      \/ pixels[k].b # Val(firstPixel).b \/ pixels[k].a # Val(firstPixel).a
                   THEN [firstPixel |-> firstPixel, hasContent |-> TRUE]
                   ELSE ScanPixels(pixels, k + 1, firstPixel)
         ELSE ScanPixels(pixels, k + 1, firstPixel)

isFrameBlank(img, frameIndex) ==
    LET scan == ScanPixels(img.cells[frameIndex], 1, Null)
    IN  ~scan.hasContent /\ scan.firstPixel = Null

\* The frames of a row that are not blank, in scan order.
RowFrames(img, row) ==
    SelectSeq([c \in 1..FRAMES_PER_ROW |-> row * FRAMES_PER_ROW + c - 1],
              LAMBDA f : ~isFrameBlank(img, f))

detectValidFrames(s, img) ==
    LET rows == {r \in 0..(img.rows - 1) : Len(RowFrames(img, r)) > 0}
    IN  [s EXCEPT !.framesByRow = [r \in rows |-> RowFrames(img, r)],
                  !.validRows = SelectSeq([r \in 1..img.rows |-> r - 1],
                                          LAMBDA r : r \in rows)]

\* ------------------------------------------------------------ Character
CharWidth == (SPRITE_WIDTH * ScaleNum) \div ScaleDen
CharHeight == (SPRITE_HEIGHT * ScaleNum) \div ScaleDen

\* validFrames.sort((a, b) => a - b), by insertion.
RECURSIVE Insert(_, _)
Insert(sorted, v) ==
    IF sorted = <<>> THEN <<v>>
    ELSE IF v < Head(sorted) THEN <<v>> \o sorted
    ELSE <<Head(sorted)>> \o Insert(Tail(sorted), v)

RECURSIVE SortAsc(_)
SortAsc(q) == IF q = <<>> THEN <<>> ELSE Insert(SortAsc(Tail(q)), Head(q))

\* The values Math.floor(Math.random() * validRows.length) + 1 may take.
RowChoices(s) == IF Len(s.validRows) = 0 THEN {0} ELSE 1..Len(s.validRows)

\* selectRandomRow without the reset of rowRepeatCount.
selectRandomRowKeepsCount(c, s, k) ==
    IF Len(s.validRows) = 0 THEN c
    ELSE LET frames == SortAsc(s.framesByRow[s.validRows[k]])
         IN  [c EXCEPT !.validFrames = frames,
                       !.currentRowRepeatTarget = Len(frames),
                       !.currentFrameIndex = 0,
                       !.currentFrame = frames[1]]

\* Character.selectRandomRow; k is the random index into validRows.
selectRandomRow(c, s, k) ==
    IF Len(s.validRows) = 0 THEN c
    ELSE LET frames == SortAsc(s.framesByRow[s.validRows[k]])
         IN  [c EXCEPT !.validFrames = frames,
                       !.currentRowRepeatTarget = Len(frames),
                       !.rowRepeatCount = 0,
                       !.currentFrameIndex = 0,
                       !.currentFrame = frames[1]]

\* new Character(x, y, isCenterCharacter)
Character(x, y, isCenterCharacter, s, k) ==
    LET c == [x |-> x, y |-> y, width |-> CharWidth, height |-> CharHeight,
              validFrames |-> <<>>, currentFrameIndex |-> 0, currentFrame |-> 0,
              rowRepeatCount |-> 0, currentRowRepeatTarget |-> 0,
              isCenterCharacter |-> isCenterCharacter]
        f == CenterTargetRow * FRAMES_PER_ROW + CenterFrameIndexInRow
    IN  IF isCenterCharacter
        THEN [c EXCEPT !.currentFrame = f, !.validFrames = <<f>>]
        ELSE selectRandomRow(c, s, k)

\* Character.update counting a repeat at every frame change.
updateEveryTick(c, s, due, k) ==
    IF c.isCenterCharacter \/ ~due \/ Len(c.validFrames) = 0 THEN c
    ELSE LET idx == (c.currentFrameIndex + 1) % Len(c.validFrames)
             c2 == [c EXCEPT !.currentFrameIndex = idx,
                             !.currentFrame = c.validFrames[idx + 1],
                             !.rowRepeatCount = @ + 1]
         IN  IF c2.rowRepeatCount >= c2.currentRowRepeatTarget /\ idx = 0
             THEN selectRandomRow(c2, s, k)
             ELSE c2

\* Character.update with > in place of >= in the test of the repeat count.
updateLate(c, s, due, k) ==
    IF c.isCenterCharacter \/ ~due \/ Len(c.validFrames) = 0 THEN c
    ELSE LET idx == (c.currentFrameIndex + 1) % Len(c.validFrames)
             c1 == [c EXCEPT !.currentFrameIndex = idx,
                             !.currentFrame = c.validFrames[idx + 1]]
             c2 == [c1 EXCEPT !.rowRepeatCount = @ + 1]
         IN  IF idx # 0 THEN c1
             ELSE IF c2.rowRepeatCount > c2.currentRowRepeatTarget
                  THEN selectRandomRow(c2, s, k)
                  ELSE c2

\* Character.update without the early return for the center character.
updateAll(c, s, due, k) ==
    IF ~due \/ Len(c.validFrames) = 0 THEN c
    ELSE LET idx == (c.currentFrameIndex + 1) % Len(c.validFrames)
             c1 == [c EXCEPT !.currentFrameIndex = idx,
                             !.currentFrame = c.validFrames[idx + 1]]
             c2 == [c1 EXCEPT !.rowRepeatCount = @ + 1]
         IN  IF idx # 0 THEN c1
             ELSE IF c2.rowRepeatCount >= c2.currentRowRepeatTarget
                  THEN selectRandomRow(c2, s, k)
                  ELSE c2

\* Character.update; due says that frameChangeInterval has passed since the
\* last frame change, k is the random row index selectRandomRow would draw.
update(c, s, due, k) ==
    IF c.isCenterCharacter \/ ~due \/ Len(c.validFrames) = 0 THEN c
    ELSE LET idx == (c.currentFrameIndex + 1) % Len(c.validFrames)
             c1 == [c EXCEPT !.currentFrameIndex = idx,
                             !.currentFrame = c.validFrames[idx + 1]]
             c2 == [c1 EXCEPT !.rowRepeatCount = @ + 1]
         IN  IF idx # 0 THEN c1
             ELSE IF c2.rowRepeatCount >= c2.currentRowRepeatTarget
                  THEN selectRandomRow(c2, s, k)
                  ELSE c2

getBounds(c) == [x |-> c.x, y |-> c.y, width |-> c.width, height |-> c.height]

\* ------------------------------------------------------------ placement
\* checkCollision with <= in place of <.
checkCollisionStrict(rect1, rect2) ==
    ~(\/ rect1.x + rect1.width <= rect2.x
      \/ rect2.x + rect2.width <= rect1.x
      \/ rect1.y + rect1.height <= rect2.y
      \/ rect2.y + rect2.height <= rect1.y)

checkCollision(rect1, rect2) ==
    ~(\/ rect1.x + rect1.width < rect2.x
      \/ rect2.x + rect2.width < rect1.x
      \/ rect1.y + rect1.height < rect2.y
      \/ rect2.y + rect2.height < rect1.y)

\* hasCollision returning from inside the first iteration of its loop.
hasCollisionFirstOnly(s, x, y, width, height) ==
    /\ Len(s.characters) > 0
    /\ checkCollision([x |-> x, y |-> y, width |-> width, height |-> height],
                      getBounds(s.characters[1]))

hasCollision(s, x, y, width, height) ==
    \E j \in 1..Len(s.characters) :
        checkCollision([x |-> x, y |-> y, width |-> width, height |-> height],
                       getBounds(s.characters[j]))

\* startMessage.getBoundingClientRect(): the box sits at the bottom right of a
\* wide window and spans the bottom of a narrow one.
IsMobile(win) == win.w <= 768

StartMessageRect(win) ==
    IF IsMobile(win)
    THEN [x |-> 0, y |-> win.h - 60, width |-> win.w, height |-> 60]
    ELSE [x |-> win.w - 280, y |-> win.h - 90, width |-> 250, height |-> 60]

ScrollBarRect(s) ==
    [x |-> 0, y |-> 0, width |-> s.canvas.width, height |-> ScrollBarHeight]

\* hasUICollision without the exclusion zone of the top scroll bar.
hasUICollisionNoStrip(s, x, y, width, height) ==
    LET testRect == [x |-> x, y |-> y, width |-> width, height |-> height]
    IN  checkCollision(testRect, StartMessageRect(s.window))

hasUICollision(s, x, y, width, height) ==
    LET testRect == [x |-> x, y |-> y, width |-> width, height |-> height]
    IN  \/ checkCollision(testRect, ScrollBarRect(s))
        \/ checkCollision(testRect, StartMessageRect(s.window))

\* Math.random() * range for Math.random() = k / RandDen.
Sample(k, range) == (k * range) \div RandDen

SampleX(s, k) == Sample(k, s.canvas.width - CharWidth)
SampleY(s, k) ==
    ScrollBarHeight + Sample(k, (s.canvas.height - CharHeight) - ScrollBarHeight)

\* The test of one sample in the loop of findRandomPosition.
Acceptable(s, x, y) ==
    /\ ~hasCollision(s, x, y, CharWidth, CharHeight)
    /\ ~hasUICollision(s, x, y, CharWidth, CharHeight)

\* ------------------------------------------------------------ spawn controller
\* The spawn timeout callback without the call that schedules the next spawn.
SpawnCallbackRestOnce(s) == [s EXCEPT !.pc = "idle", !.tries = 0]

\* The spawn timeout callback after addCharacter() has returned.
SpawnCallbackRest(s) ==
    LET s1 == [s EXCEPT !.pc = "idle", !.tries = 0]
    IN  IF s1.gameStarted THEN ScheduleNextSpawn(s1) ELSE s1

\* addCharacter with a position: the character is constructed and pushed.
AddCharacterAt(s, pos, k) ==
    [s EXCEPT !.characters = Append(@, Character(pos.x, pos.y, FALSE, s, k))]

\* addCharacter with position === null: the screen is full.
AddCharacterFull(s) ==
    [s EXCEPT !.spawnPending = IF s.spawnTimer # "null"
                               THEN ClearHandle(s.spawnTimer, @) ELSE @,
              !.spawnTimer = "null"]

\* The spawn callback with a loop that does not count its iterations.
SpawnStepUncounted(s, kx, ky, k) ==
    IF s.tries < RetryBudget
    THEN LET x == SampleX(s, kx)
             y == SampleY(s, ky)
         IN  IF Acceptable(s, x, y)
             THEN SpawnCallbackRest(AddCharacterAt(s, [x |-> x, y |-> y], k))
             ELSE s
    ELSE SpawnCallbackRest(AddCharacterFull(s))

\* One iteration of the loop of findRandomPosition inside the spawn callback,
\* and what follows the loop's exit.
SpawnStep(s, kx, ky, k) ==
    IF s.tries < RetryBudget
    THEN LET x == SampleX(s, kx)
             y == SampleY(s, ky)
         IN  IF Acceptable(s, x, y)
             THEN SpawnCallbackRest(AddCharacterAt(s, [x |-> x, y |-> y], k))
             ELSE [s EXCEPT !.tries = @ + 1]
    ELSE SpawnCallbackRest(AddCharacterFull(s))

\* The timeouts set for the characters at the indices idx: the k-th (from 0)
\* is due k * 500 ms later.
Staggered(idx) ==
    [k \in 1..Len(idx) |-> [index |-> idx[k], delay |-> (k - 1) * RemovalDelay]]

\* removeCharactersOneByOne without the filter on isCenterCharacter.
removeCharactersOneByOneAll(s) ==
    LET chain == Staggered([j \in 1..Len(s.characters) |-> j])
    IN  [s EXCEPT !.spawnPending = IF s.spawnTimer # "null"
                                   THEN ClearHandle(s.spawnTimer, @) ELSE @,
                  !.spawnTimer = "null",
                  !.removals = IF chain = <<>> THEN @ ELSE Append(@, chain)]

\* removeCharactersOneByOne.  A pending teardown timeout refers to its
\* character by the character's index in characters; a timeout whose character
\* has left the list does nothing when it fires and is not kept.
removeCharactersOneByOne(s) ==
    LET chain == Staggered(SelectSeq([j \in 1..Len(s.characters) |-> j],
                                     LAMBDA j : ~s.characters[j].isCenterCharacter))
    IN  [s EXCEPT !.spawnPending = IF s.spawnTimer # "null"
                                   THEN ClearHandle(s.spawnTimer, @) ELSE @,
                  !.spawnTimer = "null",
                  !.removals = IF chain = <<>> THEN @ ELSE Append(@, chain)]

\* characters.splice(j, 1)
Splice(q, j) == [n \in 1..(Len(q) - 1) |-> IF n < j THEN q[n] ELSE q[n + 1]]

\* A chain after the character at index j has left the list.
Reindex(chain, j) ==
    LET kept == SelectSeq(chain, LAMBDA e : e.index # j)
    IN  [n \in 1..Len(kept) |->
            [kept[n] EXCEPT !.index = IF @ > j THEN @ - 1 ELSE @]]

\* One teardown timeout: the head of chain c fires.
RemovalStep(s, c) ==
    LET j == Head(s.removals[c]).index
        chains == [n \in 1..Len(s.removals) |-> Reindex(s.removals[n], j)]
    IN  [s EXCEPT !.characters = Splice(@, j),
                  !.removals = SelectSeq(chains, LAMBDA q : q # <<>>)]

\* The 'ended' listener without the clearInterval of the song timer.
AudioEndedKeepsTick(s) ==
    removeCharactersOneByOne(
        [s EXCEPT !.gameStarted = FALSE,
                  !.audio = [@ EXCEPT !.playing = FALSE],
                  !.marquee = ""])

\* The 'ended' listener of backgroundAudio.
AudioEnded(s) ==
    removeCharactersOneByOne(
        [s EXCEPT !.gameStarted = FALSE,
                  !.audio = [@ EXCEPT !.playing = FALSE],
                  !.tickPending = IF s.songTimer # "null"
                                  THEN ClearHandle(s.songTimer, @) ELSE @,
                  !.songTimer = "null",
                  !.marquee = ""])

\* ------------------------------------------------------------ sprite sheet
Window(w, h) == [w |-> w, h |-> h]
SlimWindow == Window(112, 472)
NarrowWindow == Window(448, 508)

DefaultCanvas == [width |-> 300, height |-> 150]

CanvasOf(win) == [width |-> win.w, height |-> win.h]

\* Where the center character is put for window win (lines 461-493, 393-432).
CenterPosition(win, cv) ==
    LET m == StartMessageRect(win)
    IN  IF IsMobile(win)
        THEN [x |-> Max(10, Min(cv.width - CharWidth - 10, 20)),
              y |-> Max(70, Min(cv.height - CharHeight - 10, m.y - CharHeight - 15))]
        ELSE [x |-> m.x + CENTER_CHARACTER_OFFSET_X,
              y |-> m.y - CharHeight - 20 + CENTER_CHARACTER_OFFSET_Y]

centerCharacterOnScreen(s) ==
    LET p == CenterPosition(s.window, s.canvas)
    IN  [s EXCEPT !.characters =
            [j \in 1..Len(@) |-> IF @[j].isCenterCharacter
                                 THEN [@[j] EXCEPT !.x = p.x, !.y = p.y] ELSE @[j]]]

\* spriteSheet.onload
SpriteOnLoad(s, img) ==
    LET s1 == detectValidFrames(
                  [s EXCEPT !.sprite = "loaded", !.sheet = Some(img),
                            !.canvas = CanvasOf(s.window),
                            !.spriteSheetLoaded = TRUE], img)
    IN  IF Len(s1.validRows) = 0 THEN s1
        ELSE [s1 EXCEPT !.animating = TRUE, !.centerPending = TRUE]

\* The timeout of 100 ms set by onload.
CreateCenter(s) ==
    LET s0 == [s EXCEPT !.characters = <<>>, !.removals = <<>>,
                        !.centerPending = FALSE]
        p == CenterPosition(s.window, s.canvas)
    IN  [s0 EXCEPT !.characters = <<Character(p.x, p.y, TRUE, s0, 0)>>]

\* The window 'resize' listener, registered by onload.
OnResize(s, win) ==
    IF s.sprite = "loaded"
    THEN centerCharacterOnScreen([s EXCEPT !.window = win, !.canvas = CanvasOf(win)])
    ELSE [s EXCEPT !.window = win]

\* Whether update draws a random row for character c.
DrawsRow(c, due) ==
    /\ ~c.isCenterCharacter /\ due /\ Len(c.validFrames) > 0
    /\ c.currentFrameIndex + 1 = Len(c.validFrames)
    /\ c.rowRepeatCount + 1 >= c.currentRowRepeatTarget

\* animate() updating the characters whether the game is started or not.
AnimateAlways(s, due, k) ==
    [s EXCEPT !.characters =
        [j \in 1..Len(@) |-> update(@[j], s, due[j], k[j])]]

\* animate(): every character is updated when the game is started.
Animate(s, due, k) ==
    [s EXCEPT !.characters =
        [j \in 1..Len(@) |-> IF s.gameStarted
                             THEN update(@[j], s, due[j], k[j]) ELSE @[j]]]

\* The canvas listeners are registered when the center character is created.
Listening(s) == \E j \in 1..Len(s.characters) : s.characters[j].isCenterCharacter

\* ------------------------------------------------------------ song list
\* songListBox.classList.remove('visible'); songListVisible = false
HideSongList(s) == [s EXCEPT !.songListVisible = FALSE]

\* toggleSongList: the list is hidden at once, and shown by a timeout of 0 ms.
toggleSongList(s) ==
    IF s.songListVisible THEN HideSongList(s)
    ELSE [s EXCEPT !.showPending = @ + 1]

\* The timeout of 0 ms set by toggleSongList.
ShowSongList(s) ==
    [s EXCEPT !.songListVisible = TRUE, !.showPending = @ - 1]

\* The point (px, py) lies in the bounding box of character c.
Inside(c, px, py) ==
    LET charBounds == getBounds(c)
    IN  /\ px >= charBounds.x /\ px <= charBounds.x + charBounds.width
        /\ py >= charBounds.y /\ py <= charBounds.y + charBounds.height

\* handleCanvasClick for a click at (clickX, clickY) of the canvas.
handleCanvasClick(s, clickX, clickY) ==
    IF Len(s.characters) = 0 THEN s
    ELSE IF \E j \in 1..Len(s.characters) : Inside(s.characters[j], clickX, clickY)
         THEN toggleSongList(s)
         ELSE IF s.songListVisible THEN HideSongList(s) ELSE s

\* The 'touchstart' listener of the canvas for a touch at (touchX, touchY).
handleTouchStart(s, touchX, touchY) ==
    IF \E j \in 1..Len(s.characters) : Inside(s.characters[j], touchX, touchY)
    THEN toggleSongList(s)
    ELSE IF s.songListVisible THEN HideSongList(s) ELSE s

\* The 'click' listener of the document, for a click on an element inside the
\* song list box or not, on the canvas or not.
documentClick(s, inBox, onCanvas) ==
    IF s.songListVisible /\ ~inBox /\ ~onCanvas THEN HideSongList(s) ELSE s

\* ------------------------------------------------------------ actions
\* The state when the DOMContentLoaded handler has run: the songs are parsed,
\* the audio element exists and the sprite sheet has been requested.
InitIn(e, songLists, probes) ==
    /\ env = e
    /\ now = 0
    /\ gameStarted = FALSE
    /\ hasEverStarted = FALSE
    /\ elapsedTime = 0
    /\ startTime = Null
    /\ songs \in songLists
    /\ lastCurrentSong = 0
    /\ marquee = ""
    /\ songTimer = "null"
    /\ tickPending = 0
    /\ spawnTimer = "null"
    /\ spawnPending = 0
    /\ audio = [playing |-> FALSE, currentTime |-> 0]
    /\ window \in e.windows
    /\ canvas = DefaultCanvas
    /\ sprite = "loading"
    /\ sheet = Null
    /\ spriteSheetLoaded = FALSE
    /\ framesByRow = <<>>
    /\ validRows = <<>>
    /\ animating = FALSE
    /\ centerPending = FALSE
    /\ characters = <<>>
    /\ removals = <<>>
    /\ pc = "idle"
    /\ tries = 0
    /\ songListVisible = FALSE
    /\ showPending = 0
    /\ probe \in probes

\* The timeline at length, on a stage with room for one wandering character.
Init ==
    InitIn([horizon |-> MaxNow, windows |-> {SlimWindow}, sheets |-> {PlainSheet},
            plays |-> BOOLEAN],
           SongLists, {Null})

\* The placement engine on a stage that two wandering characters fill, for a
\* short while.
InitStage ==
    InitIn([horizon |-> 1, windows |-> {NarrowWindow},
            sheets |-> {PlainSheet}, plays |-> {TRUE}],
           {<<Song("a", AudioLen, AudioLen + 1)>>}, {Null})

\* The animation of rows of one, two and three frames, for a short while.
InitAnim ==
    InitIn([horizon |-> 1, windows |-> {SlimWindow},
            sheets |-> {RichSheet, EmptySheet}, plays |-> {TRUE}],
           {<<Song("a", AudioLen, AudioLen + 1)>>}, {Null})

\* A second of wall-clock time passes; a playing medium advances with it.
Advance ==
    /\ pc = "idle"
    /\ now < env.horizon
    /\ Commit([Cur EXCEPT !.now = @ + 1,
                          !.audio = IF @.playing
                                    THEN [@ EXCEPT !.currentTime = Min(@ + 1, AudioLen)]
                                    ELSE @])

\* A click on the start message: its listener runs, then the document's.
ToggleClick ==
    /\ pc = "idle"
    /\ \E ok \in env.plays :
           Commit(documentClick(HandleMessageBoxClick(Cur, ok), FALSE, FALSE))

Tick ==
    /\ pc = "idle"
    /\ tickPending > 0
    /\ Commit(SongTimerTick(Cur))

\* A key is pressed.
KeyCodes == {"Space", "KeyA"}

KeyDown ==
    /\ pc = "idle"
    /\ \E code \in KeyCodes, ok \in env.plays : Commit(OnKeyDown(Cur, code, ok))

\* The play and pause keys of the keyboard or of the system's media controls.
MediaPlay ==
    /\ pc = "idle"
    /\ \E ok \in env.plays : Commit(MediaSessionPlay(Cur, ok))

MediaPause ==
    /\ pc = "idle"
    /\ \E ok \in env.plays : Commit(MediaSessionPause(Cur, ok))

\* A click on an item of the song list.
SeekClick ==
    /\ pc = "idle"
    /\ Listening(Cur)
    /\ \E n \in 1..Len(songs), ok \in env.plays :
           Commit(SeekToSong(Cur, songs[n].startTime, ok))

\* The medium reaches its end while playing.
Ended ==
    /\ pc = "idle"
    /\ audio.playing
    /\ audio.currentTime >= AudioLen
    /\ Len(removals) < MaxChains
    /\ Commit(AudioEnded(Cur))

SpriteLoaded ==
    /\ pc = "idle"
    /\ sprite = "loading"
    /\ \E img \in env.sheets : Commit(SpriteOnLoad(Cur, img))

SpriteError ==
    /\ pc = "idle"
    /\ sprite = "loading"
    /\ Commit([Cur EXCEPT !.sprite = "error"])

CenterTimeout ==
    /\ pc = "idle"
    /\ centerPending
    /\ Commit(CreateCenter(Cur))

Resize ==
    /\ pc = "idle"
    /\ \E win \in env.windows : Commit(OnResize(Cur, win))

AnimationFrame ==
    /\ pc = "idle"
    /\ animating
    /\ \E due \in [1..Len(characters) -> BOOLEAN],
          k \in [1..Len(characters) -> RowChoices(Cur)] :
           \* a random row is drawn only by the characters that change row
           /\ \A j \in 1..Len(characters) :
                  DrawsRow(characters[j], due[j]) \/ \A n \in RowChoices(Cur) : k[j] <= n
           /\ Commit(Animate(Cur, due, k))

\* A spawn timeout fires: its callback calls addCharacter().
SpawnFire ==
    /\ pc = "idle"
    /\ spawnPending > 0
    /\ Len(characters) < MaxChars
    /\ \E own \in BOOLEAN :
        /\ own => spawnTimer = "live"
        /\ ~own => spawnPending > (IF spawnTimer = "live" THEN 1 ELSE 0)
        /\ Commit([Cur EXCEPT !.spawnPending = @ - 1,
                              !.spawnTimer = IF own THEN "dead" ELSE @,
                              !.pc = "spawn", !.tries = 0])

FindStep ==
    /\ pc = "spawn"
    /\ \E kx \in 0..(RandDen - 1), ky \in 0..(RandDen - 1), k \in RowChoices(Cur) :
           Commit(SpawnStep(Cur, kx, ky, k))

RemovalTimeout ==
    /\ pc = "idle"
    /\ \E c \in 1..Len(removals) : Commit(RemovalStep(Cur, c))

Next ==
    \/ Advance \/ ToggleClick \/ Tick \/ SeekClick \/ Ended
    \/ KeyDown \/ MediaPlay \/ MediaPause
    \/ SpriteLoaded \/ SpriteError \/ CenterTimeout \/ Resize
    \/ AnimationFrame \/ SpawnFire \/ FindStep \/ RemovalTimeout

Spec == Init /\ [][Next]_vars
SpecStage == InitStage /\ [][Next]_vars
SpecAnim == InitAnim /\ [][Next]_vars

\* The points of the canvas that are clicked or touched: the top left corner
\* of the canvas, which lies in the top strip, and of every character.
ClickPoints(s) ==
    {[x |-> 0, y |-> 0]}
    \cup {[x |-> s.characters[j].x, y |-> s.characters[j].y] : j \in 1..Len(s.characters)}

CanvasClick ==
    /\ pc = "idle"
    /\ Listening(Cur)
    /\ \E p \in ClickPoints(Cur) :
           /\ handleCanvasClick(Cur, p.x, p.y).showPending <= MaxShows
           /\ Commit(handleCanvasClick(Cur, p.x, p.y))

CanvasTouch ==
    /\ pc = "idle"
    /\ Listening(Cur)
    /\ \E p \in ClickPoints(Cur) :
           /\ handleTouchStart(Cur, p.x, p.y).showPending <= MaxShows
           /\ Commit(handleTouchStart(Cur, p.x, p.y))

ShowTimeout ==
    /\ pc = "idle"
    /\ showPending > 0
    /\ Commit(ShowSongList(Cur))

\* The page with its song list: the canvas is clicked and touched as well.
NextList == Next \/ CanvasClick \/ CanvasTouch \/ ShowTimeout

InitList ==
    InitIn([horizon |-> 1, windows |-> {SlimWindow}, sheets |-> {PlainSheet},
            plays |-> {TRUE}],
           {<<Song("a", AudioLen, AudioLen + 1)>>}, {Null})

SpecList == InitList /\ [][NextList]_vars

\* A stage with room for one wandering character, for a short while.  The
\* callback of a spawn timeout runs to its end once it has begun.
InitPacked ==
    InitIn([horizon |-> 1, windows |-> {SlimWindow}, sheets |-> {PlainSheet},
            plays |-> {TRUE}],
           {<<Song("a", AudioLen, AudioLen + 1)>>}, {Null})

SpecLive == InitPacked /\ [][Next]_vars /\ WF_vars(FindStep)

\* A window narrower than a character, for a short while.
TinyWindow == Window(100, 472)

InitTight ==
    InitIn([horizon |-> 1, windows |-> {TinyWindow}, sheets |-> {PlainSheet},
            plays |-> {TRUE}],
           {<<Song("a", AudioLen, AudioLen + 1)>>}, {Null})

SpecTight == InitTight /\ [][Next]_vars

\* A window that is made lower and higher again, for a short while.
ShortWindow == Window(448, 396)

InitResize ==
    InitIn([horizon |-> 1, windows |-> {NarrowWindow, ShortWindow},
            sheets |-> {PlainSheet}, plays |-> {TRUE}],
           {<<Song("a", AudioLen, AudioLen + 1)>>}, {Null})

SpecResize == InitResize /\ [][Next]_vars

\* ------------------------------------------------------------ single calls
\* One call of a function of the program: its name, its arguments and, once
\* the call has returned, its result.
Call(fn, args) == Some([fn |-> fn, args |-> args, result |-> Null])

Pending(fn) == probe # Null /\ Val(probe).fn = fn /\ Val(probe).result = Null
Returned(fn) == probe # Null /\ Val(probe).fn = fn /\ Val(probe).result # Null

Return(s, v) == [s EXCEPT !.probe = Some([Val(@) EXCEPT !.result = Some(v)])]

\* The page before anything has happened, with one call to make.
InitCall(calls) ==
    InitIn([horizon |-> 0, windows |-> {SlimWindow}, sheets |-> {PlainSheet},
            plays |-> {TRUE}],
           {<<>>}, calls)

\* checkCollision on two rectangles of the pixel grid.
Rects == [x : 0..MaxCoord, y : 0..MaxCoord, width : 1..MaxCoord, height : 1..MaxCoord]

InitCollision == InitCall({Call("checkCollision", <<r1, r2>>) : r1 \in Rects, r2 \in Rects})

CallCheckCollision ==
    /\ Pending("checkCollision")
    /\ Commit(Return(Cur, checkCollision(Val(probe).args[1], Val(probe).args[2])))

SpecCollision == InitCollision /\ [][CallCheckCollision]_vars

\* The song choice of updateScrollText for a song list and an elapsed time.
Intervals == {iv \in (0..MaxT) \X (0..MaxT) : iv[1] < iv[2]}

LookupLists ==
    UNION {{[n \in 1..m |-> Song(ToString(n), iv[n][1], iv[n][2])] :
               iv \in [1..m -> Intervals]} : m \in 1..MaxSongs}

ExampleList == <<Song("intro", 0, 10), Song("verse", 10, 40)>>
ExampleTimes == {5, 10, 39, 100}

InitLookup ==
    InitCall({Call("updateScrollText", <<l, t>>) : l \in LookupLists, t \in 0..(MaxT + 1)}
             \cup {Call("updateScrollText", <<ExampleList, t>>) : t \in ExampleTimes})

CallUpdateScrollText ==
    /\ Pending("updateScrollText")
    /\ Commit(Return(Cur, CurrentSong(Val(probe).args[1], Val(probe).args[2])))

SpecLookup == InitLookup /\ [][CallUpdateScrollText]_vars

\* loadSongs on the text of a song file.  A line of the file is written from
\* an entry: its kind, a title and two times.
Digits(n) == IF n < 10 THEN <<DigitChars[n + 1]>>
             ELSE <<DigitChars[(n \div 10) + 1], DigitChars[(n % 10) + 1]>>
TwoDigits(n) == <<DigitChars[(n \div 10) + 1], DigitChars[(n % 10) + 1]>>

TimeText(tm) == Digits(tm.m) \o <<":">> \o TwoDigits(tm.s)

LineText(e) ==
    LET range == TimeText(e.from) \o <<"-">> \o TimeText(e.to)
    IN  CASE e.kind = "ok" -> e.title \o <<" ">> \o range
          [] e.kind = "wide" -> e.title \o <<" ", "\t">> \o range
          [] e.kind = "nodash" -> e.title \o <<" ">> \o TimeText(e.from) \o <<" ">> \o TimeText(e.to)
          [] e.kind = "nocolon" -> e.title \o <<" ">> \o Digits(e.from.m) \o TwoDigits(e.from.s)
                                   \o <<"-">> \o TimeText(e.to)
          [] e.kind = "nospace" -> e.title \o range
          [] e.kind = "trail" -> e.title \o <<" ">> \o range \o <<" ">>
          [] e.kind = "junk" -> e.title \o <<" ">> \o range \o <<"x">>
          [] e.kind = "blank" -> <<>>
          [] e.kind = "spaces" -> <<" ", " ">>

RECURSIVE FileText(_)
FileText(es) ==
    IF es = <<>> THEN <<>>
    ELSE IF Len(es) = 1 THEN LineText(es[1])
    ELSE LineText(es[1]) \o <<"\n">> \o FileText(Tail(es))

Entry(kind, title, from, to) == [kind |-> kind, title |-> title, from |-> from, to |-> to]
Times == [m : 0..MaxMinutes, s : {5, 59}]
Titles == {<<"a">>, <<"a", " ", "b">>, <<"n", "o", " ", "1">>}
Kinds == {"ok", "wide", "nodash", "nocolon", "nospace", "trail", "junk", "blank", "spaces"}

ExampleEntry == Entry("ok", <<"b", "r", "a", "n", "c", "o">>, [m |-> 4, s |-> 20], [m |-> 7, s |-> 22])

\* Files of one well-formed line, and files of lines of every kind.
SingleFiles ==
    {<<Entry("ok", title, from, to)>> : title \in Titles, from \in Times, to \in Times}
    \cup {<<ExampleEntry>>}

MixedLines ==
    {Entry(kind, <<"a">>, [m |-> 0, s |-> 5], [m |-> 1, s |-> 59]) : kind \in Kinds}
    \cup {Entry("ok", <<"a", " ", "b">>, [m |-> 1, s |-> 59], [m |-> 0, s |-> 5])}

MixedFiles == UNION {[1..n -> MixedLines] : n \in 0..MaxLines}

InitParse ==
    InitCall({Call("loadSongs", <<FileText(es), es>>) : es \in SingleFiles \cup MixedFiles})

CallLoadSongs ==
    /\ Pending("loadSongs")
    /\ Commit(Return(Cur, loadSongs(Val(probe).args[1])))

SpecParse == InitParse /\ [][CallLoadSongs]_vars

\* ============================================================ claims

\* ------------------------------------------------------------ C1
\* The start message is clicked while the game is stopped and has been started
\* before: a resume.
ResumeStep == ~gameStarted /\ hasEverStarted /\ ToggleClick

\* C1: a resume, i.e. a toggle from Stopped to Playing that is not the first
\* start, leaves elapsedTime as it was when the game was paused; it is not
\* reset to 0.
C1_ResumeKeepsElapsed == [][ResumeStep => elapsedTime' = elapsedTime]_vars

\* ------------------------------------------------------------ C2
\* The spawn callback ends with findRandomPosition having returned null.
FullStep == pc = "spawn" /\ pc' = "idle" /\ characters' = characters

\* C2: when a spawn firing gets Full from the placement engine, no spawn timer
\* is pending afterwards: the controller has stopped scheduling.
C2_FullStopsSpawning == [][FullStep => spawnPending' = 0]_vars
\* ------------------------------------------------------------ C3
\* Two rectangles overlap: they share a unit square of the pixel grid.
Overlaps(a, b) ==
    /\ (a.x .. a.x + a.width - 1) \cap (b.x .. b.x + b.width - 1) # {}
    /\ (a.y .. a.y + a.height - 1) \cap (b.y .. b.y + b.height - 1) # {}

\* The spawn callback ends with a character placed.
PlacedStep == pc = "spawn" /\ Len(characters') = Len(characters) + 1

\* C3: the bounding box of a character placed by findRandomPosition overlaps
\* the bounding box of no character that was in the list, nor the 60 px top
\* strip, nor the start-message box.
C3_PlacedBoxIsClear ==
    [][PlacedStep =>
         LET box == getBounds(characters'[Len(characters')])
         IN  /\ \A j \in 1..Len(characters) : ~Overlaps(box, getBounds(characters[j]))
             /\ ~Overlaps(box, [x |-> 0, y |-> 0, width |-> canvas.width,
                                height |-> ScrollBarHeight])
             /\ ~Overlaps(box, StartMessageRect(window))]_vars

\* A wandering character stands next to the center character and another
\* wandering character.
C3_Witness ==
    /\ pc = "idle"
    /\ Len(characters) = 3
    /\ characters[1].isCenterCharacter
    /\ ~characters[2].isCenterCharacter /\ ~characters[3].isCenterCharacter

\* ------------------------------------------------------------ C4
Rect1 == Val(probe).args[1]
Rect2 == Val(probe).args[2]
Collides == Val(Val(probe).result)

\* C4 as stated: checkCollision is true exactly when the rectangles overlap, so
\* rectangles that only touch along an edge or at a corner do not collide.
C4_TouchingIsApart ==
    Returned("checkCollision") => (Collides <=> Overlaps(Rect1, Rect2))

\* Two rectangles taken with their edges have a point in common.
Meets(a, b) ==
    /\ (a.x .. a.x + a.width) \cap (b.x .. b.x + b.width) # {}
    /\ (a.y .. a.y + a.height) \cap (b.y .. b.y + b.height) # {}

\* C4: checkCollision is true exactly when the two rectangles, taken with
\* their edges, have a point in common: rectangles that overlap collide, and
\* so do rectangles that only touch along an edge or at a corner.
C4_TouchingCollides ==
    Returned("checkCollision") => (Collides <=> Meets(Rect1, Rect2))

\* checkCollision has answered for two rectangles that touch along an edge.
C4_Witness ==
    /\ Returned("checkCollision")
    /\ Rect1.x + Rect1.width = Rect2.x
    /\ Rect1.y = Rect2.y /\ Rect1.height = Rect2.height
    /\ Collides

\* ------------------------------------------------------------ C5
\* All opaque pixels of a cell are identical.
OpaqueAlike(cell) ==
    \A p, q \in DOMAIN cell : cell[p].a > 0 /\ cell[q].a > 0 => cell[p] = cell[q]

InRowGroups(f) ==
    \E r \in DOMAIN framesByRow : \E n \in 1..Len(framesByRow[r]) : framesByRow[r][n] = f

\* C5: once the frames are detected, a cell of the sheet is left out of the row
\* groups exactly when all its opaque pixels are identical (fully transparent
\* cells and cells of one uniform colour are blank), and the row groups hold
\* exactly the other cells.
C5_UniformCellIsBlank ==
    spriteSheetLoaded =>
        \A f \in DOMAIN Val(sheet).cells :
            InRowGroups(f) <=> ~OpaqueAlike(Val(sheet).cells[f])

\* ------------------------------------------------------------ C6
LookupSongs == Val(probe).args[1]
LookupTime == Val(probe).args[2]
Chosen == Val(Val(probe).result)

SortedDisjoint(sgs) ==
    \A n \in 1..(Len(sgs) - 1) : sgs[n].endTime <= sgs[n + 1].startTime

Holding(sgs, t) == {n \in 1..Len(sgs) : sgs[n].startTime <= t /\ t < sgs[n].endTime}

\* C6: for a non-empty sorted, non-overlapping song list and an elapsed time t,
\* updateScrollText chooses the first song whose interval [start, end) holds t,
\* and the last song when t is at or past the end of the last song; for intro
\* 0-10, verse 10-40 it chooses intro at 5 and verse at 10, 39 and 100.
C6_LookupChoosesSong ==
    Returned("updateScrollText") /\ SortedDisjoint(LookupSongs) =>
        /\ \A n \in Holding(LookupSongs, LookupTime) :
               (\A m \in Holding(LookupSongs, LookupTime) : n <= m) => Chosen = n
        /\ LookupTime >= LookupSongs[Len(LookupSongs)].endTime => Chosen = Len(LookupSongs)
        /\ LookupSongs = ExampleList =>
               LookupSongs[Chosen].title = (IF LookupTime = 5 THEN "intro" ELSE "verse")

\* The lookup has answered at the boundary between two songs of a sorted list.
C6_Witness ==
    /\ Returned("updateScrollText")
    /\ LookupSongs = ExampleList /\ LookupTime = 10
    /\ Chosen = 2

\* ------------------------------------------------------------ C7
\* An item of the song list, song n, is clicked while the game is not started.
SeekWhileStopped(n) ==
    /\ pc = "idle" /\ Listening(Cur) /\ ~gameStarted
    /\ \E ok \in env.plays : Commit(SeekToSong(Cur, songs[n].startTime, ok))

\* C7: a seek to the start s of a song while the game is stopped (never
\* started, paused or ended) leaves the game started with elapsedTime = s and
\* a tick timer running, and a tick d seconds later computes s + d.
C7_SeekStartsAtSong ==
    [][\A n \in 1..Len(songs) :
          SeekWhileStopped(n) =>
              /\ gameStarted' /\ tickPending' > 0 /\ songTimer' = "live"
              /\ elapsedTime' = songs[n].startTime
              /\ \A d \in 0..MaxNow :
                     TickElapsed([now |-> now' + d, startTime |-> startTime'])
                         = songs[n].startTime + d]_vars

\* The game runs with the timeline at the start of the second song although
\* no time has passed.
C7_Witness ==
    /\ gameStarted /\ now = 0 /\ Len(songs) = 2
    /\ elapsedTime = songs[2].startTime /\ elapsedTime > 0
    /\ startTime = Some(0 - elapsedTime * 1000)

\* ------------------------------------------------------------ C8
\* n animation ticks of character c, each with the frame change due.
RECURSIVE UpdateN(_, _, _, _)
UpdateN(c, s, n, k) == IF n = 0 THEN c ELSE UpdateN(update(c, s, TRUE, k), s, n - 1, k)

\* The wandering characters that stand at the first frame of a row.
AtRowStart ==
    {j \in 1..Len(characters) :
        /\ ~characters[j].isCenterCharacter
        /\ Len(characters[j].validFrames) >= 1
        /\ characters[j].currentFrameIndex = 0}

\* C8 as stated: after exactly rowLength ticks from cursor 0 the cursor is at
\* 0 again and rowRepeatCount is one greater, for every rowLength >= 1.
C8_CycleCountsOne ==
    \A j \in AtRowStart, k \in RowChoices(Cur) :
        LET c == characters[j]
            d == UpdateN(c, Cur, Len(c.validFrames), k)
        IN  d.currentFrameIndex = 0 /\ d.rowRepeatCount = c.rowRepeatCount + 1

\* C8: after exactly rowLength ticks from cursor 0 the cursor is at 0 again;
\* rowRepeatCount is one greater on the same row, unless that makes it reach
\* rowLength (as it always does when rowLength = 1): then a row is drawn anew
\* and rowRepeatCount is 0.
C8_CycleCountsOneOrRedraws ==
    \A j \in AtRowStart, k \in RowChoices(Cur) :
        LET c == characters[j]
            d == UpdateN(c, Cur, Len(c.validFrames), k)
        IN  /\ d.currentFrameIndex = 0
            /\ IF c.rowRepeatCount + 1 < Len(c.validFrames)
               THEN d.rowRepeatCount = c.rowRepeatCount + 1
                    /\ d.validFrames = c.validFrames
               ELSE d.rowRepeatCount = 0
                    /\ d.validFrames = SortAsc(framesByRow[validRows[k]])

\* A wandering character has run through its row once and does so again.
C8_Witness ==
    \E j \in AtRowStart :
        /\ characters[j].rowRepeatCount = 1
        /\ Len(characters[j].validFrames) = 3

\* ------------------------------------------------------------ C9
\* The number of ticks character c has spent on its row.
RowTicks(c) == c.rowRepeatCount * Len(c.validFrames) + c.currentFrameIndex

\* C9: a tick of a wandering character leaves its row as it is and moves it
\* one frame on, except the tick at which rowRepeatCount reaches the number of
\* frames of the row: at that tick the character takes a row of validRows,
\* with frame cursor 0 and rowRepeatCount 0.
C9_RowKeptUntilRepeated ==
    [][AnimationFrame =>
         \A j \in 1..Len(characters) :
             LET c == characters[j]
                 d == characters'[j]
                 L == Len(c.validFrames)
             IN  ~c.isCenterCharacter /\ L >= 1 /\ d # c =>
                     IF c.currentFrameIndex = L - 1 /\ c.rowRepeatCount + 1 = L
                     THEN /\ \E n \in 1..Len(validRows) :
                                 d.validFrames = SortAsc(framesByRow[validRows[n]])
                          /\ d.currentFrameIndex = 0
                          /\ d.rowRepeatCount = 0
                     ELSE /\ d.validFrames = c.validFrames
                          /\ RowTicks(d) = RowTicks(c) + 1
                          /\ d.rowRepeatCount < L]_vars

\* A wandering character is at the last frame of the last repeat of a row of
\* three frames.
C9_Witness ==
    \E j \in 1..Len(characters) :
        /\ ~characters[j].isCenterCharacter
        /\ Len(characters[j].validFrames) = 3
        /\ characters[j].currentFrameIndex = 2
        /\ characters[j].rowRepeatCount = 2

\* ------------------------------------------------------------ C10
\* C10: findRandomPosition terminates: a spawn callback that has begun comes
\* to its end, with a position or, the budget of samples used up, with null.
C10_FindTerminates == (pc = "spawn") ~> (pc = "idle")

\* The budget is used up on a screen where no sample is acceptable.
C10_Witness ==
    /\ pc = "spawn" /\ tries = RetryBudget
    /\ sprite = "loaded" /\ Len(characters) = 2
    /\ \A kx \in 0..(RandDen - 1), ky \in 0..(RandDen - 1) :
           ~Acceptable(Cur, SampleX(Cur, kx), SampleY(Cur, ky))

\* ------------------------------------------------------------ C11
\* The animation has nothing to show: the image request has failed, or the
\* image has loaded and no cell of it is a valid frame.
NoAnimationData == sprite = "error" \/ (spriteSheetLoaded /\ Len(validRows) = 0)

\* C11: when the sprite sheet has failed to load, or has loaded without any
\* valid frame, the characters list holds no wandering character.
C11_NoSheetNoWanderer ==
    NoAnimationData => \A j \in 1..Len(characters) : characters[j].isCenterCharacter

\* ------------------------------------------------------------ C12
Wanderers(chars) == SelectSeq([j \in 1..Len(chars) |-> j],
                              LAMBDA j : ~chars[j].isCenterCharacter)

Centers(chars) == SelectSeq(chars, LAMBDA c : c.isCenterCharacter)

TimersOff == tickPending = 0 /\ spawnPending = 0

\* C13: the 'ended' event leaves the game stopped, the timeline tick and the
\* spawn timer cancelled, the marquee empty and a teardown chain pending for
\* the wandering characters; and while the game stays stopped no tick and no
\* spawn timeout becomes pending, so none fires before a new start.
C13_EndedStopsAll ==
    /\ [][Ended =>
            /\ ~gameStarted'
            /\ tickPending' = 0 /\ songTimer' = "null"
            /\ spawnPending' = 0 /\ spawnTimer' = "null"
            /\ marquee' = ""
            /\ Wanderers(characters) # <<>> =>
                   /\ Len(removals') = Len(removals) + 1
                   /\ Len(removals'[Len(removals')]) = Len(Wanderers(characters))]_vars
    /\ [][~gameStarted /\ TimersOff /\ ~gameStarted' => TimersOff']_vars

\* The medium has ended on a game that showed a song and a wandering
\* character: the marquee is empty and the teardown is pending.
C13_Witness ==
    /\ ~gameStarted /\ hasEverStarted
    /\ ~audio.playing /\ audio.currentTime = AudioLen
    /\ lastCurrentSong # 0 /\ marquee = ""
    /\ TimersOff
    /\ removals # <<>>

\* ------------------------------------------------------------ C14
\* The start message is clicked while the game is started: a pause.
PauseStep == gameStarted /\ ToggleClick

\* C14: a pause leaves no timeline tick and no spawn timeout pending and
\* leaves elapsedTime as it is; while the game stays stopped, elapsedTime does
\* not change and no tick and no spawn timeout becomes pending.
C14_PauseCancelsTimers ==
    /\ [][PauseStep =>
            /\ ~gameStarted'
            /\ tickPending' = 0 /\ songTimer' = "null"
            /\ spawnPending' = 0 /\ spawnTimer' = "null"
            /\ ~audio'.playing
            /\ elapsedTime' = elapsedTime]_vars
    /\ [][~gameStarted /\ ~gameStarted' =>
            /\ elapsedTime' = elapsedTime
            /\ tickPending' = tickPending /\ spawnPending' = spawnPending]_vars

\* The game is paused a second after a tick, with its timers off.
C14_Witness ==
    /\ ~gameStarted /\ hasEverStarted
    /\ elapsedTime > 0 /\ now > elapsedTime
    /\ marquee # ""
    /\ songTimer = "null" /\ spawnTimer = "null" /\ TimersOff

\* ------------------------------------------------------------ C15
\* The start message is clicked while the game is stopped and the browser
\* rejects the play request.
RejectedStart ==
    pc = "idle" /\ ~gameStarted /\ Commit(HandleMessageBoxClick(Cur, FALSE))

\* C15: a start whose play request is rejected does not leave the game
\* started with the timeline tick and the spawn timer running.
C15_RejectedPlayNotStarted ==
    [][RejectedStart => ~(gameStarted' /\ tickPending' > 0 /\ spawnPending' > 0)]_vars

\* ------------------------------------------------------------ C16
\* C16: elapsedTime lies between 0 and the total duration in every reachable
\* state.  The total duration, audioDuration, is 0 until the metadata of the
\* medium are loaded and Math.floor(backgroundAudio.duration) from then on: it
\* is never more than AudioLen.
C16_ElapsedWithinDuration == 0 <= elapsedTime /\ elapsedTime <= AudioLen

\* ------------------------------------------------------------ C17
FileEntries == Val(probe).args[2]
Parsed == Val(Val(probe).result)

\* The song a line written from entry e stands for.
SongOf(e) == Song(e.title, e.from.m * 60 + e.from.s, e.to.m * 60 + e.to.s)

\* C17: a file of one line '<title> <M:SS>-<M:SS>' is parsed into one song with
\* that title, spaces in it included, and with the times minutes * 60 +
\* seconds; 'branco 4:20-7:22' gives branco, 260, 442.
C17_LineGivesSong ==
    Returned("loadSongs") /\ FileEntries \in SingleFiles =>
        /\ Parsed = <<SongOf(FileEntries[1])>>
        /\ Val(probe).args[1] = <<"b", "r", "a", "n", "c", "o", " ", "4", ":", "2", "0",
                                  "-", "7", ":", "2", "2">>
              => Parsed = <<[title |-> <<"b", "r", "a", "n", "c", "o">>,
                             startTime |-> 260, endTime |-> 442]>>

\* The line 'no 1 1:59-0:05' has been parsed.
C17_Witness ==
    /\ Returned("loadSongs")
    /\ Val(probe).args[1] = <<"n", "o", " ", "1", " ", "1", ":", "5", "9", "-", "0", ":", "0", "5">>
    /\ Parsed = <<[title |-> <<"n", "o", " ", "1">>, startTime |-> 119, endTime |-> 5]>>

\* ------------------------------------------------------------ C18
WellFormed(es) == SelectSeq(es, LAMBDA e : e.kind \in {"ok", "wide"})

\* C18: the songs parsed from a file are the songs of its well-formed lines,
\* in the order of the lines, whatever lines that do not match stand between
\* them.
C18_MalformedLinesSkipped ==
    Returned("loadSongs") =>
        Parsed = [n \in 1..Len(WellFormed(FileEntries)) |-> SongOf(WellFormed(FileEntries)[n])]

\* A file with a line that lacks the dash before a well-formed line has been
\* parsed into one song.
C18_Witness ==
    /\ Returned("loadSongs")
    /\ Len(FileEntries) = 2
    /\ FileEntries[1].kind = "nodash" /\ FileEntries[2].kind = "ok"
    /\ Len(Parsed) = 1

\* ------------------------------------------------------------ C19
\* C19: in every reachable state the center character shows the frame of row
\* 31, column 2, the only one of its validFrames, with frame cursor 0 and
\* rowRepeatCount 0, as when it was constructed.
C19_CenterNeverAdvances ==
    \A j \in 1..Len(characters) :
        characters[j].isCenterCharacter =>
            /\ characters[j].currentFrame = 31 * FRAMES_PER_ROW + 2
            /\ characters[j].validFrames = <<31 * FRAMES_PER_ROW + 2>>
            /\ characters[j].currentFrameIndex = 0
            /\ characters[j].rowRepeatCount = 0

\* The game runs and a wandering character has changed frame next to the
\* center character.
C19_Witness ==
    /\ gameStarted /\ Len(characters) = 2
    /\ characters[1].isCenterCharacter
    /\ ~characters[2].isCenterCharacter /\ characters[2].currentFrameIndex > 0

SeekWhilePlaying(n) ==
    /\ pc = "idle" /\ Listening(Cur) /\ gameStarted
    /\ \E ok \in env.plays : Commit(SeekToSong(Cur, songs[n].startTime, ok))

\* C21: a seek to a song while the game is started sets elapsedTime to the
\* start of that song and leaves the game started, the tick timer and the
\* spawn timer as they were (neither cancelled nor set a second time), and
\* hasEverStarted and the characters unchanged.
C21_SeekKeepsPlaying ==
    [][\A n \in 1..Len(songs) :
          SeekWhilePlaying(n) =>
              /\ elapsedTime' = songs[n].startTime
              /\ gameStarted' /\ hasEverStarted' = hasEverStarted
              /\ songTimer' = songTimer /\ tickPending' = tickPending
              /\ spawnTimer' = spawnTimer /\ spawnPending' = spawnPending
              /\ characters' = characters /\ removals' = removals]_vars

\* The running game stands at the start of the second song, ahead of the
\* time that has passed since the page was opened, its two timers pending.
C21_Witness ==
    /\ gameStarted /\ Len(songs) = 2 /\ now >= 1
    /\ elapsedTime = songs[2].startTime /\ elapsedTime > now
    /\ startTime = Some(now * 1000 - elapsedTime * 1000)
    /\ tickPending = 1 /\ spawnPending = 1

\* ------------------------------------------------------------ C22
\* C22: while the game is started elapsedTime does not decrease: the value a
\* tick of the song timer writes is at least the value held before the tick,
\* and no other step between two states of a started game lowers it except a
\* seek.
C22_ElapsedMonotone ==
    /\ [][Tick /\ gameStarted => elapsedTime' >= elapsedTime]_vars
    /\ [][gameStarted /\ gameStarted' /\ elapsedTime' < elapsedTime
              => \E n \in 1..Len(songs) : SeekWhilePlaying(n)]_vars

\* A seek has moved the timeline of the running game to the start of a song
\* and a tick, a second later, has moved it on by one.
C22_Witness ==
    /\ gameStarted /\ Len(songs) = 2 /\ now >= 1
    /\ elapsedTime = songs[2].startTime + 1
    /\ startTime = Some((now - 1) * 1000 - songs[2].startTime * 1000)

\* ------------------------------------------------------------ C23
\* C23: every position findRandomPosition returns keeps the scaled bounding
\* box on the canvas and below the top strip, whatever the size of the canvas:
\* 0 <= x, x + charWidth <= canvas.width, y >= 60 and
\* y + charHeight <= canvas.height.
C23_PositionOnScreen ==
    [][PlacedStep =>
          LET c == characters'[Len(characters')]
          IN  /\ 0 <= c.x /\ c.x + CharWidth <= canvas.width
              /\ c.y >= ScrollBarHeight /\ c.y + CharHeight <= canvas.height]_vars

\* ------------------------------------------------------------ C24
\* C24: the removal timeouts of a teardown are cancelled when the game is
\* started again while they are pending: a start leaves no removal pending,
\* and no removal timeout fires and takes a character out of the list while
\* the new game runs.
C24_RestartCancelsRemovals ==
    /\ [][~gameStarted /\ removals # <<>> /\ ToggleClick => removals' = <<>>]_vars
    /\ [][gameStarted /\ RemovalTimeout => characters' = characters]_vars

\* ------------------------------------------------------------ C25
\* C25: a spawn firing that finds a position appends exactly one character to
\* the list, a wandering one, leaves the characters that were there as they
\* were, and sets exactly one timeout for the next spawn; every other step of
\* a firing, the one that ends it with a full screen included, leaves the
\* list unchanged.
C25_SpawnAddsOne ==
    /\ [][PlacedStep =>
            /\ characters' = Append(characters, characters'[Len(characters')])
            /\ ~characters'[Len(characters')].isCenterCharacter
            /\ spawnPending' = spawnPending + 1
            /\ spawnTimer' = "live"]_vars
    /\ [][(SpawnFire \/ pc = "spawn") /\ ~PlacedStep => characters' = characters]_vars

\* Two firings have each placed a wandering character and the timeout of a
\* third spawn is pending.
C25_Witness ==
    /\ gameStarted /\ pc = "idle" /\ Len(characters) = 3
    /\ ~characters[2].isCenterCharacter /\ ~characters[3].isCenterCharacter
    /\ spawnPending = 1 /\ spawnTimer = "live"

\* ------------------------------------------------------------ C26
\* The animation state of a character.
AnimationState(c) ==
    <<c.currentFrame, c.currentFrameIndex, c.rowRepeatCount, c.validFrames>>

\* C26: while the game is stopped a frame of the render loop leaves the
\* animation state (currentFrame, currentFrameIndex, rowRepeatCount,
\* validFrames) of every character unchanged, and the animation state of a
\* character that stays in its place changes only in a step of a started game.
C26_StoppedFramesKeepState ==
    /\ [][AnimationFrame /\ ~gameStarted =>
            /\ Len(characters') = Len(characters)
            /\ \A j \in 1..Len(characters) :
                   AnimationState(characters'[j]) = AnimationState(characters[j])]_vars
    /\ [][Len(characters') = Len(characters) =>
            \A j \in 1..Len(characters) :
                (/\ characters'[j].isCenterCharacter = characters[j].isCenterCharacter
                 /\ characters'[j].x = characters[j].x
                 /\ characters'[j].y = characters[j].y
                 /\ AnimationState(characters'[j]) # AnimationState(characters[j]))
                    => gameStarted /\ AnimationFrame]_vars

\* The game was paused while a wandering character stood in the middle of a
\* row; the render loop goes on.
C26_Witness ==
    /\ ~gameStarted /\ hasEverStarted /\ animating /\ pc = "idle"
    /\ \E j \in 1..Len(characters) :
           /\ ~characters[j].isCenterCharacter
           /\ Len(characters[j].validFrames) > 1
           /\ characters[j].currentFrameIndex > 0

\* ------------------------------------------------------------ C27
\* The Space key is pressed.
SpaceStep ==
    pc = "idle" /\ \E ok \in env.plays : Commit(OnKeyDown(Cur, "Space", ok))

\* handleMessageBoxClick runs, whatever called it.
ToggleStep ==
    pc = "idle" /\ \E ok \in env.plays : Commit(HandleMessageBoxClick(Cur, ok))

\* C27: a press of the Space key runs the toggle that a click on the start
\* message runs and flips gameStarted; the media-session 'play' action leaves
\* the game started and 'pause' leaves it stopped, each through the same
\* toggle, and each changes nothing when the game is in that state already.
C27_KeysToggle ==
    /\ [][SpaceStep => ToggleStep /\ gameStarted' = ~gameStarted]_vars
    /\ [][MediaPlay =>
            /\ gameStarted'
            /\ IF gameStarted THEN UNCHANGED vars ELSE ToggleStep]_vars
    /\ [][MediaPause =>
            /\ ~gameStarted'
            /\ IF gameStarted THEN ToggleStep ELSE UNCHANGED vars]_vars

\* The game has been stopped after a second of play.
C27_Witness ==
    /\ ~gameStarted /\ hasEverStarted /\ pc = "idle"
    /\ ~audio.playing /\ audio.currentTime = 1
    /\ elapsedTime = 1 /\ TimersOff

\* ------------------------------------------------------------ C28
\* What the visibility of the song list is once the pending show timeouts
\* have run: each of them sets songListVisible.
VisibleWhenSettled == songListVisible \/ showPending > 0

\* A click or a touch at the corner of character j, or at the corner of the
\* canvas, where no character is.
CharacterClick(j) ==
    /\ pc = "idle" /\ Listening(Cur)
    /\ \/ Commit(handleCanvasClick(Cur, characters[j].x, characters[j].y))
       \/ Commit(handleTouchStart(Cur, characters[j].x, characters[j].y))

OutsideClick ==
    /\ pc = "idle" /\ Listening(Cur)
    /\ \/ Commit(handleCanvasClick(Cur, 0, 0))
       \/ Commit(handleTouchStart(Cur, 0, 0))

\* C28: a click or tap on a character toggles the song list, whether the
\* deferred show step of an earlier click has run or not: a list that is
\* hidden and stays hidden becomes visible, a list that is visible or about to
\* be shown ends hidden, so that two clicks in a row leave the list as it was;
\* and after a click outside every character the list is hidden and is not
\* about to be shown.
C28_CharacterClickToggles ==
    /\ [][\A j \in 1..Len(characters) :
              CharacterClick(j) => VisibleWhenSettled' = ~VisibleWhenSettled]_vars
    /\ [][OutsideClick => ~VisibleWhenSettled']_vars

\* ------------------------------------------------------------ C29
\* C29: between two events (no spawn callback is running) the timeline tick
\* interval is active exactly when gameStarted is true, a spawn timeout is
\* pending exactly when gameStarted is true, and there is never more than one
\* active tick interval nor more than one pending spawn timeout; songTimer and
\* spawnTimer hold the handles of the timers that are pending.
C29_TimersMatchGameStarted ==
    /\ tickPending <= 1 /\ spawnPending <= 1
    /\ pc = "idle" =>
           /\ tickPending = (IF gameStarted THEN 1 ELSE 0)
           /\ spawnPending = (IF gameStarted THEN 1 ELSE 0)
           /\ (songTimer = "live") = gameStarted
           /\ (spawnTimer = "live") = gameStarted

\* A seek has moved the timeline of the running game ahead of the clock and a
\* spawn timeout has fired and placed a character: one tick interval and one
\* spawn timeout are pending.
C29_Witness ==
    /\ gameStarted /\ pc = "idle" /\ hasEverStarted
    /\ Len(characters) = 2 /\ elapsedTime > now
    /\ tickPending = 1 /\ spawnPending = 1

\* ------------------------------------------------------------ C30
\* C30: in every reachable state no two characters of the list, the center
\* character included, have overlapping bounding boxes.
C30_NoTwoOverlap ==
    \A i \in 1..Len(characters), j \in 1..Len(characters) :
        i # j => ~Overlaps(getBounds(characters[i]), getBounds(characters[j]))

\* ------------------------------------------------------------ C31
\* q is the list of the frames of row r that are not blank, in ascending order.
IsRowList(q, r) ==
    /\ q # <<>>
    /\ \A n \in 1..Len(q) :
           /\ q[n] \div FRAMES_PER_ROW = r
           /\ ~isFrameBlank(Val(sheet), q[n])
    /\ \A n \in 1..(Len(q) - 1) : q[n] < q[n + 1]
    /\ \A f \in (r * FRAMES_PER_ROW)..(r * FRAMES_PER_ROW + FRAMES_PER_ROW - 1) :
           ~isFrameBlank(Val(sheet), f) => \E n \in 1..Len(q) : q[n] = f

\* C31: once valid rows have been detected, every wandering character has as
\* validFrames the ascending frame list of one of the valid rows, a cursor
\* with 0 <= currentFrameIndex < validFrames.length and
\* currentFrame = validFrames[currentFrameIndex], and a repeat count with
\* 0 <= rowRepeatCount < currentRowRepeatTarget = validFrames.length.
C31_WandererRowState ==
    validRows # <<>> =>
        \A j \in 1..Len(characters) :
            LET c == characters[j]
            IN  ~c.isCenterCharacter =>
                    /\ \E n \in 1..Len(validRows) : IsRowList(c.validFrames, validRows[n])
                    /\ 0 <= c.currentFrameIndex
                    /\ c.currentFrameIndex < Len(c.validFrames)
                    /\ c.currentFrame = c.validFrames[c.currentFrameIndex + 1]
                    /\ 0 <= c.rowRepeatCount
                    /\ c.rowRepeatCount < c.currentRowRepeatTarget
                    /\ c.currentRowRepeatTarget = Len(c.validFrames)

\* A wandering character stands at the last frame of a row of three frames
\* that it has gone through twice.
C31_Witness ==
    \E j \in 1..Len(characters) :
        /\ ~characters[j].isCenterCharacter
        /\ Len(characters[j].validFrames) = 3
        /\ characters[j].currentFrameIndex = 2
        /\ characters[j].rowRepeatCount = 2

\* ------------------------------------------------------------ C32
\* C32: whenever the game is started with a song list that is not empty, the
\* marquee shows after each tick the title of the song updateScrollText
\* chooses for the elapsed time of that tick, also when the medium has ended
\* (which empties the marquee) and the game was started anew or a song was
\* sought since.
C32_MarqueeShowsCurrentSong ==
    [][Tick /\ gameStarted /\ Len(songs) > 0 =>
          marquee' = songs[CurrentSong(songs, elapsedTime')].title]_vars

\* ------------------------------------------------------------ C33
\* Every song of the list ends after it starts.
ProperIntervals(sgs) == \A n \in 1..Len(sgs) : sgs[n].startTime < sgs[n].endTime

\* C33: the song updateScrollText chooses for the elapsed time t of a sorted
\* list of songs holds t in its interval [startTime, endTime), or is the last
\* song with t at or past its endTime, or is the first song with t before the
\* startTime of every song; so for t in a gap between two songs the first song
\* is chosen only if t precedes all songs.
C33_ChosenSongJustified ==
    /\ Returned("updateScrollText")
    /\ SortedDisjoint(LookupSongs) /\ ProperIntervals(LookupSongs)
    => \/ Chosen \in Holding(LookupSongs, LookupTime)
       \/ /\ Chosen = Len(LookupSongs)
          /\ LookupTime >= LookupSongs[Chosen].endTime
       \/ /\ Chosen = 1
          /\ \A n \in 1..Len(LookupSongs) : LookupTime < LookupSongs[n].startTime

====
